---- MODULE Spec2Model ----
(***************************************************************************)
(* Model of src/app_todo.py (AITodoApp): the hybrid translation pipeline   *)
(* (dictionary, then model fallback, behind a verbatim-keyed cache) and    *)
(* the session operations that call it.  Texts are TLA+ strings and the    *)
(* string operators below compute what the Python str methods compute.     *)
(***************************************************************************)
EXTENDS Integers, Sequences, FiniteSets, TLC

\* ------------------------------------------------------------------------
\* Bounds of the model
\* ------------------------------------------------------------------------
MaxCache == 2
MaxApiUsage == 1
MaxTasks == 1
MaxTaskList == 2

\* ------------------------------------------------------------------------
\* Python values and str methods
\* ------------------------------------------------------------------------
\* Optional[str]: None is the empty tuple, a value v is <<v>>.
None == << >>
Some(v) == << v >>

CharAt(s, i) == SubSeq(s, i, i)

\* the whitespace characters of the modelled input alphabet
IsSpace(ch) == ch \in {" ", "\t", "\n"}

\* str.lower(), one character (the modelled inputs are ASCII)
LowerChar(ch) ==
    CASE ch = "A" -> "a" [] ch = "B" -> "b" [] ch = "C" -> "c" [] ch = "D" -> "d"
      [] ch = "E" -> "e" [] ch = "F" -> "f" [] ch = "G" -> "g" [] ch = "H" -> "h"
      [] ch = "I" -> "i" [] ch = "J" -> "j" [] ch = "K" -> "k" [] ch = "L" -> "l"
      [] ch = "M" -> "m" [] ch = "N" -> "n" [] ch = "O" -> "o" [] ch = "P" -> "p"
      [] ch = "Q" -> "q" [] ch = "R" -> "r" [] ch = "S" -> "s" [] ch = "T" -> "t"
      [] ch = "U" -> "u" [] ch = "V" -> "v" [] ch = "W" -> "w" [] ch = "X" -> "x"
      [] ch = "Y" -> "y" [] ch = "Z" -> "z" [] OTHER -> ch

RECURSIVE Lower(_)
Lower(s) == IF s = "" THEN "" ELSE LowerChar(Head(s)) \o Lower(Tail(s))

RECURSIVE LStrip(_)
LStrip(s) == IF s = "" THEN ""
             ELSE IF IsSpace(Head(s)) THEN LStrip(Tail(s)) ELSE s

RECURSIVE RStrip(_)
RStrip(s) == IF s = "" THEN ""
             ELSE IF IsSpace(CharAt(s, Len(s))) THEN RStrip(SubSeq(s, 1, Len(s) - 1))
             ELSE s

\* str.strip()
Strip(s) == RStrip(LStrip(s))

\* str.replace(old, new) for a one-character old
RECURSIVE Replace(_, _, _)
Replace(s, old, new) ==
    IF s = "" THEN ""
    ELSE (IF Head(s) = old THEN new ELSE Head(s)) \o Replace(Tail(s), old, new)

\* the Python test  a in b  on two strings
IsIn(a, b) == \E i \in 0..(Len(b) - Len(a)) : SubSeq(b, i + 1, i + Len(a)) = a

\* truthiness of an Optional[str]: None and "" are falsy
Truthy(o) == o # None /\ o[1] # ""

\* ------------------------------------------------------------------------
\* predefined_translations: each table is the list of its (key, value)
\* items in insertion order
\* ------------------------------------------------------------------------
UiEnglish == <<
    <<"app_title", "AI Todo App">>,
    <<"app_subtitle", "Intelligent Multilingual Task Management">>,
    <<"add_task", "Add New Task">>,
    <<"task_title", "Task Title">>,
    <<"task_description", "Task Description">>,
    <<"priority", "Priority">>,
    <<"status", "Status">>,
    <<"tags", "Tags (comma-separated)">>,
    <<"create_task", "Create Task">>,
    <<"update_task", "Update Task">>,
    <<"delete_task", "Delete Task">>,
    <<"translate", "Translate">>,
    <<"language", "Language">>,
    <<"filter_by_status", "Filter by Status">>,
    <<"filter_by_priority", "Filter by Priority">>,
    <<"search_tasks", "Search Tasks">>,
    <<"no_tasks_found", "No tasks found. Create your first task!">>,
    <<"translation_cached", "Translation cached">>,
    <<"translation_from_gpt", "Translated with AI">>,
    <<"translation_from_dict", "Quick translation">>,
    <<"api_error", "Translation service unavailable">>,
    <<"all", "All">> >>

UiSpanish == <<
    <<"app_title", "App de Tareas IA">>,
    <<"app_subtitle", "Gestión Inteligente de Tareas Multiidioma">>,
    <<"add_task", "Agregar Nueva Tarea">>,
    <<"task_title", "Título de la Tarea">>,
    <<"task_description", "Descripción de la Tarea">>,
    <<"priority", "Prioridad">>,
    <<"status", "Estado">>,
    <<"tags", "Etiquetas (separadas por comas)">>,
    <<"create_task", "Crear Tarea">>,
    <<"update_task", "Actualizar Tarea">>,
    <<"delete_task", "Eliminar Tarea">>,
    <<"translate", "Traducir">>,
    <<"language", "Idioma">>,
    <<"filter_by_status", "Filtrar por Estado">>,
    <<"filter_by_priority", "Filtrar por Prioridad">>,
    <<"search_tasks", "Buscar Tareas">>,
    <<"no_tasks_found", "¡No se encontraron tareas. Crea tu primera tarea!">>,
    <<"translation_cached", "Traducción almacenada">>,
    <<"translation_from_gpt", "Traducido con IA">>,
    <<"translation_from_dict", "Traducción rápida">>,
    <<"api_error", "Servicio de traducción no disponible">>,
    <<"all", "Todos">> >>

TasksEnglish == <<
    <<"buy_groceries", "Buy groceries">>,
    <<"call_doctor", "Call doctor">>,
    <<"finish_project", "Finish project">>,
    <<"pay_bills", "Pay bills">>,
    <<"clean_house", "Clean house">>,
    <<"exercise", "Exercise">>,
    <<"study", "Study">>,
    <<"meeting", "Meeting">>,
    <<"deadline", "Deadline">>,
    <<"urgent", "Urgent">>,
    <<"important", "Important">>,
    <<"work", "Work">>,
    <<"personal", "Personal">>,
    <<"health", "Health">>,
    <<"finance", "Finance">>,
    <<"shopping", "Shopping">>,
    <<"appointment", "Appointment">> >>

TasksSpanish == <<
    <<"buy_groceries", "Comprar comestibles">>,
    <<"call_doctor", "Llamar al doctor">>,
    <<"finish_project", "Terminar proyecto">>,
    <<"pay_bills", "Pagar facturas">>,
    <<"clean_house", "Limpiar casa">>,
    <<"exercise", "Hacer ejercicio">>,
    <<"study", "Estudiar">>,
    <<"meeting", "Reunión">>,
    <<"deadline", "Fecha límite">>,
    <<"urgent", "Urgente">>,
    <<"important", "Importante">>,
    <<"work", "Trabajo">>,
    <<"personal", "Personal">>,
    <<"health", "Salud">>,
    <<"finance", "Finanzas">>,
    <<"shopping", "Compras">>,
    <<"appointment", "Cita">> >>

\* predefined_translations['ui'].get(language, {}) and ['tasks'].get(language, {}):
\* the tables of English and Spanish; a language without a table gets {}.
\* (The tables of French, German, Italian and Hindi are not written out here
\* and these languages are not among the inputs.)
UiTable(language) ==
    CASE language = "English" -> UiEnglish
      [] language = "Spanish" -> UiSpanish
      [] OTHER -> << >>

\* variant for C15: a language without a table gets the English table
TasksTableEnglishDefault(language) ==
    CASE language = "English" -> TasksEnglish
      [] language = "Spanish" -> TasksSpanish
      [] OTHER -> TasksEnglish

TasksTable(language) ==
    CASE language = "English" -> TasksEnglish
      [] language = "Spanish" -> TasksSpanish
      [] OTHER -> << >>

\* dict.get(key) on a table: the value of the key, or None
DictGet(table, key) ==
    IF \E i \in 1..Len(table) : table[i][1] = key
    THEN Some(table[CHOOSE i \in 1..Len(table) : table[i][1] = key][2])
    ELSE None

\* ------------------------------------------------------------------------
\* translate_text_with_dictionary
\* ------------------------------------------------------------------------
NormalizeText(text) ==
    Replace(Replace(Replace(Replace(Replace(Strip(Lower(text)),
        " ", "_"), ".", ""), ",", ""), "!", ""), "?", "")

\* the partial-match loop: the value of the first item, in table order, whose
\* key contains the normalized text or is contained in it
\* variant for C14: the loop returns the value of the last matching item
PartialMatchLast(table, normalized_text) ==
    LET hits == { i \in 1..Len(table) :
                    IsIn(normalized_text, table[i][1]) \/ IsIn(table[i][1], normalized_text) }
    IN  IF hits = {} THEN None
        ELSE Some(table[CHOOSE i \in hits : \A j \in hits : i >= j][2])

PartialMatch(table, normalized_text) ==
    LET hits == { i \in 1..Len(table) :
                    IsIn(normalized_text, table[i][1]) \/ IsIn(table[i][1], normalized_text) }
    IN  IF hits = {} THEN None
        ELSE Some(table[CHOOSE i \in hits : \A j \in hits : i <= j][2])

\* variant for C20: no partial-match loop
translate_text_with_dictionary_exact_only(text, target_language) ==
    LET normalized_text  == NormalizeText(text)
        ui_translation   == DictGet(UiTable(target_language), normalized_text)
        task_translation == DictGet(TasksTable(target_language), normalized_text)
    IN  IF Truthy(ui_translation) THEN ui_translation
        ELSE IF Truthy(task_translation) THEN task_translation
        ELSE None

\* variant for C2: the text is normalized without lower()
translate_text_with_dictionary_case_sensitive(text, target_language) ==
    LET normalized_text  ==
            Replace(Replace(Replace(Replace(Replace(Strip(text),
                " ", "_"), ".", ""), ",", ""), "!", ""), "?", "")
        ui_translation   == DictGet(UiTable(target_language), normalized_text)
        task_translation == DictGet(TasksTable(target_language), normalized_text)
    IN  IF Truthy(ui_translation) THEN ui_translation
        ELSE IF Truthy(task_translation) THEN task_translation
        ELSE PartialMatch(TasksTable(target_language), normalized_text)

translate_text_with_dictionary(text, target_language) ==
    LET normalized_text  == NormalizeText(text)
        ui_translation   == DictGet(UiTable(target_language), normalized_text)
        task_translation == DictGet(TasksTable(target_language), normalized_text)
    IN  IF Truthy(ui_translation) THEN ui_translation
        ELSE IF Truthy(task_translation) THEN task_translation
        ELSE PartialMatch(TasksTable(target_language), normalized_text)

\* ------------------------------------------------------------------------
\* Inputs of the model
\* ------------------------------------------------------------------------
Languages == { "English", "Spanish" }

\* context tags passed by render_task_card
Contexts == { "title", "description" }

\* texts given to translate_text
Texts == { "", " \t", "buy groceries", "Buy Groceries! ", "Personal", "Zq" }

\* the calls translate_text(text, target_language, context) of the model
Calls ==
    (Texts \X Languages \X {"title"})
    \cup { <<"", "Spanish", "description">>, <<"Zq", "Spanish", "description">> }

\* a language that predefined_translations has no table for
UnknownLanguage == "Klingon"

ResolverLanguages == Languages \cup { UnknownLanguage }

\* texts given to translate_text_with_dictionary and to its normalization
ResolverTexts ==
    { "", "?", " .,!? ", "Buy Groceries! ", "buy groceries ", "buy  groceries",
      "Pay\tBills", "hi !", "All", "e", "Exercise daily.", "Work", "Zq",
      "Zq_Spanish", "task title", "a b" }

\* the calls translate_text(text, target_language, context) that differ in one
\* field, or in a field that holds an underscore, or that name a language
\* without a table, or whose text normalizes to the empty key
KeyCalls ==
    { <<"buy groceries", "Spanish", "title">>,
      <<"buy groceries ", "Spanish", "title">>,
      <<"buy groceries", "Spanish", "description">>,
      <<"buy groceries", "English", "title">>,
      <<"Zq", "Spanish", "title">>,
      <<"Zq_Spanish", "English", "title">>,
      <<"Zq", "Spanish", "task">>,
      <<"buy groceries", UnknownLanguage, "title">>,
      <<"Zq", UnknownLanguage, "ui-label">>,
      <<"?", "Spanish", "title">>,
      <<"?", "English", "title">> }

\* self.supported_languages
SupportedLanguages == { "English", "Spanish", "French", "German", "Italian", "Hindi" }

\* the context tags a key is built from
KeyContexts == { "title", "description", "ui-label", "task" }

\* every text and language the model passes to the dictionary resolver
AllTexts == Texts \cup ResolverTexts

\* values of the OPENAI_API_KEY environment variable: unset, malformed, well-formed
ApiKeys == { None, Some("key-1"), Some("sk-1") }

\* ------------------------------------------------------------------------
\* The external chat-completion call, as seen by translate_text_with_gpt:
\* create() raises; or it returns a response whose choices[0].message.content
\* is a string; or it returns a response from which no text can be read
\* (content is None, or choices is empty), so that reading it raises.
\* ------------------------------------------------------------------------
ModelReplies == { " Texto traducido\n", " " }

ModelOutcomes ==
    { [kind |-> "raise", content |-> ""], [kind |-> "no_content", content |-> ""] }
    \cup { [kind |-> "content", content |-> r] : r \in ModelReplies }

\* ------------------------------------------------------------------------
\* translate_text_with_gpt: the returned text, the counter after the call,
\* and the path the call took: "mock" (no client), "raise" (create() raised),
\* "no_content" (create() returned, reading the text raised), "content"
\* ------------------------------------------------------------------------
\* variant for C3: the mock path counts as API usage
translate_text_with_gpt_counting_mock(text, target_language, openai_client, api_usage_count, outcome) ==
    IF ~openai_client
    THEN [ret |-> "[Mock AI Translation to " \o target_language \o "] " \o text,
          api_usage_count |-> api_usage_count + 1, path |-> "mock"]
    ELSE IF outcome.kind = "raise"
    THEN [ret |-> text, api_usage_count |-> api_usage_count, path |-> "raise"]
    ELSE IF outcome.kind = "no_content"
    THEN [ret |-> text, api_usage_count |-> api_usage_count + 1, path |-> "no_content"]
    ELSE [ret |-> Strip(outcome.content),
          api_usage_count |-> api_usage_count + 1, path |-> "content"]

\* variant for C16: a request that raises gives the empty string
translate_text_with_gpt_empty_on_error(text, target_language, openai_client, api_usage_count, outcome) ==
    IF ~openai_client
    THEN [ret |-> "[Mock AI Translation to " \o target_language \o "] " \o text,
          api_usage_count |-> api_usage_count, path |-> "mock"]
    ELSE IF outcome.kind = "raise"
    THEN [ret |-> "", api_usage_count |-> api_usage_count, path |-> "raise"]
    ELSE IF outcome.kind = "no_content"
    THEN [ret |-> text, api_usage_count |-> api_usage_count + 1, path |-> "no_content"]
    ELSE [ret |-> Strip(outcome.content),
          api_usage_count |-> api_usage_count + 1, path |-> "content"]

\* variant for C8: the mock path returns the text unchanged
translate_text_with_gpt_plain_mock(text, target_language, openai_client, api_usage_count, outcome) ==
    IF ~openai_client
    THEN [ret |-> text, api_usage_count |-> api_usage_count, path |-> "mock"]
    ELSE IF outcome.kind = "raise"
    THEN [ret |-> text, api_usage_count |-> api_usage_count, path |-> "raise"]
    ELSE IF outcome.kind = "no_content"
    THEN [ret |-> text, api_usage_count |-> api_usage_count + 1, path |-> "no_content"]
    ELSE [ret |-> Strip(outcome.content),
          api_usage_count |-> api_usage_count + 1, path |-> "content"]

translate_text_with_gpt(text, target_language, openai_client, api_usage_count, outcome) ==
    IF ~openai_client
    THEN [ret |-> "[Mock AI Translation to " \o target_language \o "] " \o text,
          api_usage_count |-> api_usage_count, path |-> "mock"]
    ELSE IF outcome.kind = "raise"
    THEN [ret |-> text, api_usage_count |-> api_usage_count, path |-> "raise"]
    ELSE IF outcome.kind = "no_content"
    THEN [ret |-> text, api_usage_count |-> api_usage_count + 1, path |-> "no_content"]
    ELSE [ret |-> Strip(outcome.content),
          api_usage_count |-> api_usage_count + 1, path |-> "content"]

\* ------------------------------------------------------------------------
\* translate_text
\* ------------------------------------------------------------------------
\* variant for C11: the key leaves the context tag out
CacheKeyNoContext(text, target_language, context) ==
    text \o "_" \o target_language

CacheKey(text, target_language, context) ==
    text \o "_" \o target_language \o "_" \o context

\* variant for C21: a cache write stores nothing
CachePutDropped(cache, key, value) == cache

CachePut(cache, key, value) ==
    [k \in DOMAIN cache \cup {key} |-> IF k = key THEN value ELSE cache[k]]

\* translate_text_with_dictionary on the modelled inputs, evaluated once
DictionaryResults ==
    [text \in AllTexts, target_language \in ResolverLanguages |->
        translate_text_with_dictionary(text, target_language)]

\* variant for C1: what the model translator returns is not cached
translate_text_model_uncached(text, target_language, context, cache, api_usage_count, openai_client, outcome) ==
    LET cache_key        == CacheKey(text, target_language, context)
        dict_translation == DictionaryResults[text, target_language]
        gpt              == translate_text_with_gpt(text, target_language, openai_client,
                                                    api_usage_count, outcome)
    IN  IF Strip(text) = ""
        THEN [text |-> text, source |-> "original", cache |-> cache,
              api_usage_count |-> api_usage_count,
              dict_calls |-> 0, gpt_calls |-> 0, gpt_path |-> "none"]
        ELSE IF cache_key \in DOMAIN cache
        THEN [text |-> cache[cache_key], source |-> "cached", cache |-> cache,
              api_usage_count |-> api_usage_count,
              dict_calls |-> 0, gpt_calls |-> 0, gpt_path |-> "none"]
        ELSE IF Truthy(dict_translation) /\ dict_translation[1] # text
        THEN [text |-> dict_translation[1], source |-> "dictionary",
              cache |-> CachePut(cache, cache_key, dict_translation[1]),
              api_usage_count |-> api_usage_count,
              dict_calls |-> 1, gpt_calls |-> 0, gpt_path |-> "none"]
        ELSE [text |-> gpt.ret, source |-> "gpt",
              cache |-> cache,
              api_usage_count |-> gpt.api_usage_count,
              dict_calls |-> 1, gpt_calls |-> 1, gpt_path |-> gpt.path]

\* variant for C4: a dictionary match is taken even when it equals the text
translate_text_any_match(text, target_language, context, cache, api_usage_count, openai_client, outcome) ==
    LET cache_key        == CacheKey(text, target_language, context)
        dict_translation == DictionaryResults[text, target_language]
        gpt              == translate_text_with_gpt(text, target_language, openai_client,
                                                    api_usage_count, outcome)
    IN  IF Strip(text) = ""
        THEN [text |-> text, source |-> "original", cache |-> cache,
              api_usage_count |-> api_usage_count,
              dict_calls |-> 0, gpt_calls |-> 0, gpt_path |-> "none"]
        ELSE IF cache_key \in DOMAIN cache
        THEN [text |-> cache[cache_key], source |-> "cached", cache |-> cache,
              api_usage_count |-> api_usage_count,
              dict_calls |-> 0, gpt_calls |-> 0, gpt_path |-> "none"]
        ELSE IF Truthy(dict_translation)
        THEN [text |-> dict_translation[1], source |-> "dictionary",
              cache |-> CachePut(cache, cache_key, dict_translation[1]),
              api_usage_count |-> api_usage_count,
              dict_calls |-> 1, gpt_calls |-> 0, gpt_path |-> "none"]
        ELSE [text |-> gpt.ret, source |-> "gpt",
              cache |-> CachePut(cache, cache_key, gpt.ret),
              api_usage_count |-> gpt.api_usage_count,
              dict_calls |-> 1, gpt_calls |-> 1, gpt_path |-> gpt.path]

\* variant for C5: the dictionary is asked before the cache
translate_text_dictionary_first(text, target_language, context, cache, api_usage_count, openai_client, outcome) ==
    LET cache_key        == CacheKey(text, target_language, context)
        dict_translation == DictionaryResults[text, target_language]
        gpt              == translate_text_with_gpt(text, target_language, openai_client,
                                                    api_usage_count, outcome)
    IN  IF Strip(text) = ""
        THEN [text |-> text, source |-> "original", cache |-> cache,
              api_usage_count |-> api_usage_count,
              dict_calls |-> 0, gpt_calls |-> 0, gpt_path |-> "none"]
        ELSE IF Truthy(dict_translation) /\ dict_translation[1] # text
        THEN [text |-> dict_translation[1], source |-> "dictionary",
              cache |-> CachePut(cache, cache_key, dict_translation[1]),
              api_usage_count |-> api_usage_count,
              dict_calls |-> 1, gpt_calls |-> 0, gpt_path |-> "none"]
        ELSE IF cache_key \in DOMAIN cache
        THEN [text |-> cache[cache_key], source |-> "cached", cache |-> cache,
              api_usage_count |-> api_usage_count,
              dict_calls |-> 0, gpt_calls |-> 0, gpt_path |-> "none"]
        ELSE [text |-> gpt.ret, source |-> "gpt",
              cache |-> CachePut(cache, cache_key, gpt.ret),
              api_usage_count |-> gpt.api_usage_count,
              dict_calls |-> 1, gpt_calls |-> 1, gpt_path |-> gpt.path]

\* variant for C6: a blank text is resolved like any other
translate_text_no_blank_check(text, target_language, context, cache, api_usage_count, openai_client, outcome) ==
    LET cache_key        == CacheKey(text, target_language, context)
        dict_translation == DictionaryResults[text, target_language]
        gpt              == translate_text_with_gpt(text, target_language, openai_client,
                                                    api_usage_count, outcome)
    IN  IF cache_key \in DOMAIN cache
        THEN [text |-> cache[cache_key], source |-> "cached", cache |-> cache,
              api_usage_count |-> api_usage_count,
              dict_calls |-> 0, gpt_calls |-> 0, gpt_path |-> "none"]
        ELSE IF Truthy(dict_translation) /\ dict_translation[1] # text
        THEN [text |-> dict_translation[1], source |-> "dictionary",
              cache |-> CachePut(cache, cache_key, dict_translation[1]),
              api_usage_count |-> api_usage_count,
              dict_calls |-> 1, gpt_calls |-> 0, gpt_path |-> "none"]
        ELSE [text |-> gpt.ret, source |-> "gpt",
              cache |-> CachePut(cache, cache_key, gpt.ret),
              api_usage_count |-> gpt.api_usage_count,
              dict_calls |-> 1, gpt_calls |-> 1, gpt_path |-> gpt.path]

\* variant for C10: a cache write discards the other entries
translate_text_single_entry(text, target_language, context, cache, api_usage_count, openai_client, outcome) ==
    LET cache_key        == CacheKey(text, target_language, context)
        dict_translation == DictionaryResults[text, target_language]
        gpt              == translate_text_with_gpt(text, target_language, openai_client,
                                                    api_usage_count, outcome)
    IN  IF Strip(text) = ""
        THEN [text |-> text, source |-> "original", cache |-> cache,
              api_usage_count |-> api_usage_count,
              dict_calls |-> 0, gpt_calls |-> 0, gpt_path |-> "none"]
        ELSE IF cache_key \in DOMAIN cache
        THEN [text |-> cache[cache_key], source |-> "cached", cache |-> cache,
              api_usage_count |-> api_usage_count,
              dict_calls |-> 0, gpt_calls |-> 0, gpt_path |-> "none"]
        ELSE IF Truthy(dict_translation) /\ dict_translation[1] # text
        THEN [text |-> dict_translation[1], source |-> "dictionary",
              cache |-> CachePut(<< >>, cache_key, dict_translation[1]),
              api_usage_count |-> api_usage_count,
              dict_calls |-> 1, gpt_calls |-> 0, gpt_path |-> "none"]
        ELSE [text |-> gpt.ret, source |-> "gpt",
              cache |-> CachePut(<< >>, cache_key, gpt.ret),
              api_usage_count |-> gpt.api_usage_count,
              dict_calls |-> 1, gpt_calls |-> 1, gpt_path |-> gpt.path]

\* The value of a call: the returned pair (text, source), the cache and the
\* counter after the call, how many times the call invoked the dictionary
\* resolver and the model translator, and the model translator's path.
translate_text(text, target_language, context, cache, api_usage_count, openai_client, outcome) ==
    LET cache_key        == CacheKey(text, target_language, context)
        dict_translation == DictionaryResults[text, target_language]
        gpt              == translate_text_with_gpt(text, target_language, openai_client,
                                                    api_usage_count, outcome)
    IN  IF Strip(text) = ""
        THEN [text |-> text, source |-> "original", cache |-> cache,
              api_usage_count |-> api_usage_count,
              dict_calls |-> 0, gpt_calls |-> 0, gpt_path |-> "none"]
        ELSE IF cache_key \in DOMAIN cache
        THEN [text |-> cache[cache_key], source |-> "cached", cache |-> cache,
              api_usage_count |-> api_usage_count,
              dict_calls |-> 0, gpt_calls |-> 0, gpt_path |-> "none"]
        ELSE IF Truthy(dict_translation) /\ dict_translation[1] # text
        THEN [text |-> dict_translation[1], source |-> "dictionary",
              cache |-> CachePut(cache, cache_key, dict_translation[1]),
              api_usage_count |-> api_usage_count,
              dict_calls |-> 1, gpt_calls |-> 0, gpt_path |-> "none"]
        ELSE [text |-> gpt.ret, source |-> "gpt",
              cache |-> CachePut(cache, cache_key, gpt.ret),
              api_usage_count |-> gpt.api_usage_count,
              dict_calls |-> 1, gpt_calls |-> 1, gpt_path |-> gpt.path]

\* ------------------------------------------------------------------------
\* setup_openai_client: whether self.openai_client is set after the call,
\* given the import flag, the OPENAI_API_KEY value, and whether the
\* constructor and the models.list() test call returned
\* ------------------------------------------------------------------------
StartsWith(s, prefix) == Len(s) >= Len(prefix) /\ SubSeq(s, 1, Len(prefix)) = prefix

setup_openai_client(available, key, init_ok, test_ok) ==
    IF ~available THEN FALSE
    ELSE IF Truthy(key) /\ StartsWith(key[1], "sk-") THEN init_ok /\ test_ok
    ELSE FALSE

\* ------------------------------------------------------------------------
\* Task records and the task-list methods
\* ------------------------------------------------------------------------
\* Status and Priority values (the enum values without their emoji prefix)
StatusValues == << "Todo", "In Progress", "Completed" >>
PriorityValues == << "Low", "Medium", "High" >>

\* dict operations on a function
DictSet(d, k, v) == [x \in DOMAIN d \cup {k} |-> IF x = k THEN v ELSE d[x]]
DictDel(d, k) == [x \in DOMAIN d \ {k} |-> d[x]]

\* Task(...): __post_init__ replaces a None tags by [] and a None
\* translations by {}
Task(id, title, description, priority, status, created_at, tags, translations) ==
    [id |-> id, title |-> title, description |-> description, priority |-> priority,
     status |-> status, created_at |-> created_at,
     tags |-> IF tags = None THEN << >> ELSE tags[1],
     translations |-> IF translations = None THEN << >> ELSE translations[1]]

\* str.split(',') : the pieces between the commas
RECURSIVE Split(_, _)
Split(s, piece) ==
    IF s = "" THEN << piece >>
    ELSE IF Head(s) = "," THEN << piece >> \o Split(Tail(s), "")
    ELSE Split(Tail(s), piece \o Head(s))

\* [tag.strip() for tag in tags_input.split(',') if tag.strip()]
RECURSIVE StripNonEmpty(_)
StripNonEmpty(pieces) ==
    IF pieces = << >> THEN << >>
    ELSE IF Strip(Head(pieces)) = "" THEN StripNonEmpty(Tail(pieces))
    ELSE << Strip(Head(pieces)) >> \o StripNonEmpty(Tail(pieces))

ParseTags(tags_input) == StripNonEmpty(Split(tags_input, ""))

\* create_task: the task list after the call (tags or [] is tags itself for a list)
create_task(task_list, id, created_at, title, description, priority, tags) ==
    Append(task_list,
           Task(id, title, description, priority, StatusValues[1], created_at,
                Some(tags), None))

\* the index of the first task with the id, or 0
FirstWithId(task_list, task_id) ==
    IF \E i \in 1..Len(task_list) : task_list[i].id = task_id
    THEN CHOOSE i \in 1..Len(task_list) :
           /\ task_list[i].id = task_id
           /\ \A j \in 1..(i - 1) : task_list[j].id # task_id
    ELSE 0

\* update_task(task_id, status=status): the first task with the id is updated
update_task(task_list, task_id, status) ==
    LET i == FirstWithId(task_list, task_id)
    IN  IF i = 0 THEN task_list
        ELSE [task_list EXCEPT ![i].status = status]

\* delete_task: every task with the id is removed
RECURSIVE delete_task(_, _)
delete_task(task_list, task_id) ==
    IF task_list = << >> THEN << >>
    ELSE IF Head(task_list).id = task_id THEN delete_task(Tail(task_list), task_id)
    ELSE << Head(task_list) >> \o delete_task(Tail(task_list), task_id)

\* import_tasks_json on parsed JSON: None when json.loads raises, else the
\* list of records, each a dict from field names to values.  The records are
\* appended one by one; a record without a required field raises, which ends
\* the loop.  The value is the task list after the call and the returned flag.
RequiredFields == { "title", "description", "priority", "status", "created_at" }

RECURSIVE ImportRecords(_, _, _)
ImportRecords(task_list, records, fresh_ids) ==
    IF records = << >> THEN [tasks |-> task_list, ok |-> TRUE]
    ELSE LET task_data == Head(records)
         IN  IF ~(RequiredFields \subseteq DOMAIN task_data)
             THEN [tasks |-> task_list, ok |-> FALSE]
             ELSE ImportRecords(
                    Append(task_list,
                           Task(IF "id" \in DOMAIN task_data THEN task_data["id"]
                                ELSE Head(fresh_ids),
                                task_data["title"], task_data["description"],
                                task_data["priority"], task_data["status"],
                                task_data["created_at"],
                                IF "tags" \in DOMAIN task_data
                                THEN Some(task_data["tags"]) ELSE Some(<< >>),
                                IF "translations" \in DOMAIN task_data
                                THEN Some(task_data["translations"]) ELSE Some(<< >>))),
                    Tail(records),
                    IF "id" \in DOMAIN task_data THEN fresh_ids ELSE Tail(fresh_ids))

import_tasks_json(task_list, json_data, fresh_ids) ==
    IF json_data = None THEN [tasks |-> task_list, ok |-> FALSE]
    ELSE ImportRecords(task_list, json_data[1], fresh_ids)

\* the fields of the Task dataclass
TaskFields == { "id", "title", "description", "priority", "status", "created_at",
                "tags", "translations" }

\* dataclasses.asdict(task): the dict of the dataclass fields
asdict(task) == [f \in TaskFields |-> task[f]]

\* variant for C18: the exported dicts hold no translations
export_tasks_json_flat(task_list) ==
    Some([i \in 1..Len(task_list) |->
            [f \in TaskFields \ {"translations"} |-> task_list[i][f]]])

\* export_tasks_json: the JSON document, as json.loads reads it back: the
\* list of the tasks' dicts, in list order
export_tasks_json(task_list) ==
    Some([i \in 1..Len(task_list) |-> asdict(task_list[i])])

\* variant for C17: a field the overlay lacks is shown empty
render_task_card_blank(task, current_lang) ==
    IF current_lang \in DOMAIN task.translations
    THEN LET overlay == task.translations[current_lang]
         IN  [display_title |-> IF "title" \in DOMAIN overlay
                                THEN overlay["title"] ELSE "",
              display_description |-> IF "description" \in DOMAIN overlay
                                      THEN overlay["description"] ELSE "",
              is_translated |-> TRUE]
    ELSE [display_title |-> task.title, display_description |-> task.description,
          is_translated |-> FALSE]

\* render_task_card: what the card of a task shows for the selected language
render_task_card(task, current_lang) ==
    IF current_lang \in DOMAIN task.translations
    THEN LET overlay == task.translations[current_lang]
         IN  [display_title |-> IF "title" \in DOMAIN overlay
                                THEN overlay["title"] ELSE task.title,
              display_description |-> IF "description" \in DOMAIN overlay
                                      THEN overlay["description"] ELSE task.description,
              is_translated |-> TRUE]
    ELSE [display_title |-> task.title, display_description |-> task.description,
          is_translated |-> FALSE]

\* ------------------------------------------------------------------------
\* Inputs of the session operations
\* ------------------------------------------------------------------------
\* identifiers uuid4 can return
TaskIds == { "id-1", "id-2" }

\* datetime.now().isoformat()
Now == "2025-01-01T09:00:00"

\* what the task form is submitted with
FormTitles == { " buy groceries", "  " }
FormDescriptions == { "  " }
FormPriorities == { "Medium" }
FormTags == { "work, " }

\* the status the status selectbox is set to
SelectedStatuses == { "Todo", "Completed" }

FullRecord ==
    [id |-> "id-1", title |-> "buy groceries", description |-> "",
     priority |-> "Medium", status |-> "Todo", created_at |-> Now,
     tags |-> << "work" >>, translations |-> << >>]

BareRecord ==
    [title |-> "buy groceries", description |-> "",
     priority |-> "Medium", status |-> "Todo", created_at |-> Now,
     tags |-> << "work" >>]

NoTitleRecord ==
    [id |-> "id-2", description |-> "",
     priority |-> "Medium", status |-> "Todo", created_at |-> Now]

\* the JSON documents given to import_tasks_json, parsed
ImportBatches ==
    { None, Some(<< FullRecord >>), Some(<< BareRecord >>),
      Some(<< FullRecord, NoTitleRecord >>) }

\* a record with the required fields only
MinimalRecord ==
    [title |-> "buy groceries", description |-> "Get milk",
     priority |-> "Medium", status |-> "Todo", created_at |-> Now]

\* a record whose Spanish overlay has no description and whose English
\* overlay has no title
PartialRecord ==
    [id |-> "id-2", title |-> "buy groceries", description |-> "Get milk",
     priority |-> "Medium", status |-> "Todo", created_at |-> Now,
     tags |-> << >>,
     translations |-> [language \in Languages |->
                          IF language = "Spanish"
                          THEN [title |-> "Comprar comestibles"]
                          ELSE [description |-> "Get the milk"]]]

\* a record whose title has no dictionary match and whose description has one
CardRecord ==
    [title |-> "Zq", description |-> "buy groceries",
     priority |-> "Medium", status |-> "Todo", created_at |-> Now]

\* the JSON document given to import_tasks_json in the model of the cards
CardBatches == { Some(<< CardRecord >>) }

\* the JSON documents given to import_tasks_json in the task-list model
TaskBatches ==
    { None, Some(<< FullRecord >>), Some(<< MinimalRecord >>),
      Some(<< PartialRecord >>), Some(<< FullRecord, NoTitleRecord >>),
      Some(<< NoTitleRecord, FullRecord >>) }

\* the calls translate_text(text, target_language, context) made on the app
\* object beside the ones of the Translate button
SessionCalls == { <<"Zq", "Spanish", "title">>, <<"", "Spanish", "title">> }

\* the completions the calls of the session receive
ButtonOutcomes ==
    { [kind |-> "raise", content |-> ""],
      [kind |-> "content", content |-> " Texto traducido\n"] }

\* ------------------------------------------------------------------------
\* State
\* ------------------------------------------------------------------------
VARIABLES
    tasks,               \* st.session_state.tasks
    translation_cache,   \* st.session_state.translation_cache
    api_usage_count,     \* st.session_state.api_usage_count
    selected_language,   \* st.session_state.selected_language
    openai_client,       \* self.openai_client is not None
    last                 \* observation of the last operation: its arguments and
                         \* result, the keys a cache clear discarded, and the
                         \* list position of the task card rendered; a
                         \* widget that neither translates nor clears the
                         \* cache is observed as "widget"

vars == << tasks, translation_cache, api_usage_count, selected_language,
           openai_client, last >>

NoCall == [op |-> "none", text |-> "", language |-> "", context |-> "",
           result |-> "", source |-> "", dict_calls |-> 0, gpt_calls |-> 0,
           gpt_path |-> "none", after |-> "other", dropped |-> {}, card |-> 0]

Observe(op) == [NoCall EXCEPT !.op = op]

\* main(): every script run constructs AITodoApp() before it handles the
\* widget that triggered it; the session state is kept, the client is set
\* up anew
NewClient(client) ==
    client \in { setup_openai_client(available, key, init_ok, test_ok) :
                   available \in BOOLEAN, key \in ApiKeys,
                   init_ok \in BOOLEAN, test_ok \in BOOLEAN }

\* init_session_state, then setup_openai_client
Init ==
    /\ tasks = << >>
    /\ translation_cache = << >>
    /\ api_usage_count = 0
    /\ selected_language = "English"
    /\ NewClient(openai_client)
    /\ last = NoCall

\* a script run that handles no widget
SetupOpenAIClient ==
    /\ NewClient(openai_client')
    /\ last' = Observe("setup_openai_client")
    /\ UNCHANGED << tasks, translation_cache, api_usage_count, selected_language >>

\* how a call relates to the operation right before it: it repeats that call,
\* or it asks for a key that the cache clear right before it discarded
After(text, target_language, context) ==
    IF /\ last.op = "translate_text" /\ last.text = text
       /\ last.language = target_language /\ last.context = context
    THEN "same_call"
    ELSE IF /\ last.op = "clear_translation_cache"
            /\ CacheKey(text, target_language, context) \in last.dropped
    THEN "dropped_key"
    ELSE "other"

\* a call translate_text(text, target_language, context) on the app object
TranslateTextOn(calls, outcomes) ==
    \E call \in calls, outcome \in outcomes :
      LET text            == call[1]
          target_language == call[2]
          context         == call[3]
          r == translate_text(text, target_language, context, translation_cache,
                              api_usage_count, openai_client, outcome)
      IN  /\ Cardinality(DOMAIN r.cache) <= MaxCache
          /\ r.api_usage_count <= MaxApiUsage
          /\ translation_cache' = r.cache
          /\ api_usage_count' = r.api_usage_count
          /\ last' = [op |-> "translate_text", text |-> text, language |-> target_language,
                      context |-> context, result |-> r.text, source |-> r.source,
                      dict_calls |-> r.dict_calls, gpt_calls |-> r.gpt_calls,
                      gpt_path |-> r.gpt_path,
                      after |-> After(text, target_language, context), dropped |-> {},
                      card |-> 0]
          /\ UNCHANGED << tasks, selected_language, openai_client >>

TranslateText == TranslateTextOn(Calls, ModelOutcomes)

TranslateSessionText == TranslateTextOn(SessionCalls, ButtonOutcomes)

\* variant for C7: the "Clear Translation Cache" button leaves the cache as it is
ClearTranslationCacheKept ==
    /\ NewClient(openai_client')
    /\ translation_cache' = translation_cache
    /\ last' = [Observe("clear_translation_cache") EXCEPT
                   !.dropped = DOMAIN translation_cache]
    /\ UNCHANGED << tasks, api_usage_count, selected_language >>

\* render_statistics: the "Clear Translation Cache" button
ClearTranslationCache ==
    /\ NewClient(openai_client')
    /\ translation_cache' = << >>
    /\ last' = [Observe("clear_translation_cache") EXCEPT
                   !.dropped = DOMAIN translation_cache]
    /\ UNCHANGED << tasks, api_usage_count, selected_language >>

\* variant for C23: the "Clear All Tasks" button empties the cache as well
ClearAllTasksAndCache ==
    /\ NewClient(openai_client')
    /\ tasks' = << >>
    /\ translation_cache' = << >>
    /\ last' = Observe("clear_all_tasks")
    /\ UNCHANGED << api_usage_count, selected_language >>

\* render_statistics: the "Clear All Tasks" button
ClearAllTasks ==
    /\ NewClient(openai_client')
    /\ tasks' = << >>
    /\ last' = Observe("clear_all_tasks")
    /\ UNCHANGED << translation_cache, api_usage_count, selected_language >>

\* render_header: the language selectbox
SelectLanguage ==
    /\ NewClient(openai_client')
    /\ \E language \in Languages : selected_language' = language
    /\ last' = Observe("widget")
    /\ UNCHANGED << tasks, translation_cache, api_usage_count >>

\* render_task_form: the form is submitted; a blank title is refused
SubmitTaskFormUpTo(max_tasks) ==
    /\ NewClient(openai_client')
    /\ \E title \in FormTitles, description \in FormDescriptions,
          priority \in FormPriorities, tags_input \in FormTags :
         IF Strip(title) # ""
         THEN /\ Len(tasks) < max_tasks
              /\ \E id \in TaskIds \ { tasks[i].id : i \in 1..Len(tasks) } :
                   tasks' = create_task(tasks, id, Now, Strip(title), Strip(description),
                                        priority, ParseTags(tags_input))
              /\ last' = Observe("widget")
         ELSE /\ tasks' = tasks
              /\ last' = Observe("widget")
    /\ UNCHANGED << translation_cache, api_usage_count, selected_language >>

SubmitTaskForm == SubmitTaskFormUpTo(MaxTasks)

\* render_task_card: the status selectbox of a task is changed
ChangeStatus ==
    /\ NewClient(openai_client')
    /\ \E i \in 1..Len(tasks), new_status \in SelectedStatuses :
         /\ new_status # tasks[i].status
         /\ tasks' = update_task(tasks, tasks[i].id, new_status)
    /\ last' = Observe("widget")
    /\ UNCHANGED << translation_cache, api_usage_count, selected_language >>

\* render_task_card: the delete button of a task
DeleteTask ==
    /\ NewClient(openai_client')
    /\ \E i \in 1..Len(tasks) : tasks' = delete_task(tasks, tasks[i].id)
    /\ last' = Observe("delete_task")
    /\ UNCHANGED << translation_cache, api_usage_count, selected_language >>

\* render_task_card: the Translate button of a task not yet translated to the
\* selected language: title and description are translated, the overlay is
\* stored in the task, and the task is written to the first list position
\* that holds its id.  The detailed observation holds the card, the language,
\* the overlay written, the sources of the two calls, how many times they
\* called the dictionary resolver and the model translator, and whether the
\* button follows the Retranslate button of the same card that itself
\* followed the Translate button
TranslateButtonObserved(detailed) ==
    /\ NewClient(openai_client')
    /\ \E i \in 1..Len(tasks), title_outcome \in ButtonOutcomes,
          desc_outcome \in ButtonOutcomes :
         LET task == tasks[i]
             current_lang == selected_language
             t == translate_text(task.title, current_lang, "title", translation_cache,
                                 api_usage_count, openai_client', title_outcome)
             d == translate_text(task.description, current_lang, "description", t.cache,
                                 t.api_usage_count, openai_client', desc_outcome)
             translated ==
                 [task EXCEPT !.translations =
                     DictSet(task.translations, current_lang,
                             [title |-> t.text, description |-> d.text])]
         IN  /\ current_lang \notin DOMAIN task.translations
             /\ Cardinality(DOMAIN d.cache) <= MaxCache
             /\ d.api_usage_count <= MaxApiUsage
             /\ translation_cache' = d.cache
             /\ api_usage_count' = d.api_usage_count
             /\ tasks' = [ [tasks EXCEPT ![i] = translated]
                             EXCEPT ![FirstWithId(tasks, task.id)] = translated ]
             /\ last' = IF ~detailed THEN Observe("translate_button") ELSE
                        [Observe("translate_button") EXCEPT
                            !.card = i, !.language = current_lang,
                            !.text = translated.translations[current_lang],
                            !.source = << t.source, d.source >>,
                            !.dict_calls = t.dict_calls + d.dict_calls,
                            !.gpt_calls = t.gpt_calls + d.gpt_calls,
                            !.after = IF /\ last.op = "retranslate_button"
                                         /\ last.card = i
                                         /\ last.language = current_lang
                                         /\ last.after = "translated"
                                      THEN "retranslated" ELSE "other"]
    /\ UNCHANGED selected_language

TranslateButton == TranslateButtonObserved(FALSE)

\* render_task_card: the Retranslate button of a task translated to the
\* selected language deletes that overlay.  The detailed observation holds
\* the card, the language, the overlay deleted, and whether the button
\* follows the Translate button of the same card
RetranslateButtonObserved(detailed) ==
    /\ NewClient(openai_client')
    /\ \E i \in 1..Len(tasks) :
         /\ selected_language \in DOMAIN tasks[i].translations
         /\ tasks' = [tasks EXCEPT ![i].translations =
                         DictDel(tasks[i].translations, selected_language)]
         /\ last' = IF ~detailed THEN Observe("widget") ELSE
                     [Observe("retranslate_button") EXCEPT
                        !.card = i, !.language = selected_language,
                        !.text = tasks[i].translations[selected_language],
                        !.after = IF /\ last.op = "translate_button"
                                     /\ last.card = i
                                     /\ last.language = selected_language
                                  THEN "translated" ELSE "other"]
    /\ UNCHANGED << translation_cache, api_usage_count, selected_language >>

RetranslateButton == RetranslateButtonObserved(FALSE)

\* a call import_tasks_json(json_data) on the app object; the observation
\* holds the document and the returned flag
ImportTasksJsonOn(batches, max_tasks) ==
    /\ \E json_data \in batches, id \in TaskIds \ { tasks[i].id : i \in 1..Len(tasks) } :
         LET r == import_tasks_json(tasks, json_data, << id >>)
         IN  /\ Len(r.tasks) <= max_tasks
             /\ tasks' = r.tasks
             /\ last' = [Observe("import_tasks_json") EXCEPT
                            !.text = json_data,
                            !.result = IF r.ok THEN "True" ELSE "False"]
    /\ UNCHANGED << translation_cache, api_usage_count, selected_language, openai_client >>

ImportTasksJson == ImportTasksJsonOn(ImportBatches, MaxTasks)

\* the translation pipeline alone
Next ==
    \/ SetupOpenAIClient
    \/ TranslateText
    \/ ClearTranslationCache

Spec == Init /\ [][Next]_vars

\* the session: the widgets of the page and the calls on the app object
NextSession ==
    \/ TranslateSessionText
    \/ ClearTranslationCache
    \/ ClearAllTasks
    \/ SelectLanguage
    \/ SubmitTaskForm
    \/ ChangeStatus
    \/ DeleteTask
    \/ TranslateButton
    \/ RetranslateButton
    \/ ImportTasksJson

SpecSession == Init /\ [][NextSession]_vars

\* the first statement of translate_text_with_dictionary on a text: the
\* normalized key
NormalizeInput ==
    /\ \E text \in ResolverTexts :
         last' = [Observe("normalize") EXCEPT !.text = text, !.result = NormalizeText(text)]
    /\ UNCHANGED << tasks, translation_cache, api_usage_count, selected_language,
                    openai_client >>

\* a call translate_text_with_dictionary(text, target_language); the result
\* observed is the Optional[str] returned
ResolveDictionary ==
    /\ \E text \in ResolverTexts, target_language \in ResolverLanguages :
         last' = [Observe("translate_text_with_dictionary") EXCEPT
                     !.text = text, !.language = target_language,
                     !.result = translate_text_with_dictionary(text, target_language)]
    /\ UNCHANGED << tasks, translation_cache, api_usage_count, selected_language,
                    openai_client >>

\* the dictionary resolver alone
NextDictionary ==
    \/ NormalizeInput
    \/ ResolveDictionary

SpecDictionary == Init /\ [][NextDictionary]_vars

TranslateKeyText == TranslateTextOn(KeyCalls, ButtonOutcomes)

\* the translation pipeline on the calls of KeyCalls
NextKeys ==
    \/ TranslateKeyText
    \/ ClearTranslationCache

SpecKeys == Init /\ [][NextKeys]_vars

\* render_task_card: the card of the task at a list position is rendered for
\* the selected language; the observation holds what it shows
RenderTaskCard ==
    /\ NewClient(openai_client')
    /\ \E i \in 1..Len(tasks) :
         LET shown == render_task_card(tasks[i], selected_language)
         IN  last' = [Observe("render_task_card") EXCEPT
                         !.card = i, !.text = shown.display_title,
                         !.result = shown.display_description,
                         !.language = selected_language]
    /\ UNCHANGED << tasks, translation_cache, api_usage_count, selected_language >>

\* the task list is exported with export_tasks_json and the document is
\* imported with import_tasks_json into the emptied task list
ReimportExport ==
    /\ \E id \in TaskIds :
         LET r == import_tasks_json(<< >>, export_tasks_json(tasks), << id >>)
         IN  /\ tasks' = r.tasks
             /\ last' = [Observe("reimport_export") EXCEPT
                            !.result = IF r.ok THEN "True" ELSE "False"]
    /\ UNCHANGED << translation_cache, api_usage_count, selected_language, openai_client >>

SubmitTaskFormToList == SubmitTaskFormUpTo(MaxTaskList)

ImportTaskBatch == ImportTasksJsonOn(TaskBatches, MaxTaskList)

\* the task list: its operations, the cards and the JSON documents
NextTasks ==
    \/ SubmitTaskFormToList
    \/ ChangeStatus
    \/ DeleteTask
    \/ ClearAllTasks
    \/ SelectLanguage
    \/ ImportTaskBatch
    \/ RenderTaskCard
    \/ ReimportExport

SpecTasks == Init /\ [][NextTasks]_vars

ImportCardBatch == ImportTasksJsonOn(CardBatches, MaxTasks)

TranslateCard == TranslateButtonObserved(TRUE)

RetranslateCard == RetranslateButtonObserved(TRUE)

\* the Translate and Retranslate buttons of the cards
NextCards ==
    \/ ImportCardBatch
    \/ SelectLanguage
    \/ TranslateCard
    \/ RetranslateCard
    \/ ClearTranslationCache

SpecCards == Init /\ [][NextCards]_vars

\* the two reset buttons and the delete button, beside the operations that
\* fill the task list, the cache and the counter
NextReset ==
    \/ SubmitTaskForm
    \/ SelectLanguage
    \/ TranslateCard
    \/ TranslateSessionText
    \/ ClearTranslationCache
    \/ ClearAllTasks
    \/ DeleteTask

SpecReset == Init /\ [][NextReset]_vars

\* ------------------------------------------------------------------------
\* Properties of translate_text
\* ------------------------------------------------------------------------
IsBlank(text) == Strip(text) = ""

\* the step is a call of translate_text; last' holds its arguments and result
Call == last'.op = "translate_text"

CallKey == CacheKey(last'.text, last'.language, last'.context)

\* the call's key is not in the cache when the call is made
Uncached == CallKey \notin DOMAIN translation_cache

\* the call made a completion request that returned
Returned(obs) == obs.gpt_path \in {"content", "no_content"}

\* the value the phrase tables hold under the normalized text: the UI-label
\* entry, else the task-phrase entry, else None
ExactEntries ==
    [text \in Texts, language \in Languages |->
        LET ui == DictGet(UiTable(language), NormalizeText(text))
        IN  IF ui # None THEN ui
            ELSE DictGet(TasksTable(language), NormalizeText(text))]

\* C1: two consecutive calls of translate_text with the same non-blank text,
\* language and context return the same text, the second one is a cache hit,
\* and the two calls together invoke the dictionary resolver at most once and
\* the model translator at most once.
C1_Idempotence ==
    [][ ( /\ Call
          /\ last.op = "translate_text"
          /\ last'.text = last.text
          /\ last'.language = last.language
          /\ last'.context = last.context
          /\ ~IsBlank(last.text) )
        => /\ last'.result = last.result
           /\ last'.source = "cached"
           /\ last.dict_calls + last'.dict_calls <= 1
           /\ last.gpt_calls + last'.gpt_calls <= 1 ]_vars

\* a model reply that is blank was cached as "" and the repeated call hit it
C1_Witness ==
    /\ last.op = "translate_text"
    /\ last.after = "same_call"
    /\ last.text = "Zq"
    /\ last.source = "cached"
    /\ last.result = ""

\* C2 as stated: an uncached call for a text whose normalized key is an entry
\* of the UI-label or task-phrase table of the language returns that entry
\* with source 'dictionary' and does not invoke the model translator.
C2_Original ==
    [][ ( /\ Call
          /\ Uncached
          /\ ExactEntries[last'.text, last'.language] # None )
        => /\ last'.result = ExactEntries[last'.text, last'.language][1]
           /\ last'.source = "dictionary"
           /\ last'.gpt_calls = 0 ]_vars

\* C2 amended: the same, for an entry that differs from the text as given.
C2_DictionaryPrecedence ==
    [][ ( /\ Call
          /\ Uncached
          /\ ExactEntries[last'.text, last'.language] # None
          /\ ExactEntries[last'.text, last'.language][1] # last'.text )
        => /\ last'.result = ExactEntries[last'.text, last'.language][1]
           /\ last'.source = "dictionary"
           /\ last'.gpt_calls = 0 ]_vars

C2_Witness ==
    /\ last.op = "translate_text"
    /\ last.text = "Buy Groceries! "
    /\ last.language = "Spanish"
    /\ last.source = "dictionary"
    /\ last.result = "Comprar comestibles"

\* C3 as stated: an uncached call for a non-blank text with no dictionary
\* match returns source 'gpt' and increases the API-usage counter by one.
C3_Original ==
    [][ ( /\ Call
          /\ Uncached
          /\ ~IsBlank(last'.text)
          /\ DictionaryResults[last'.text, last'.language] = None )
        => /\ last'.source = "gpt"
           /\ api_usage_count' = api_usage_count + 1 ]_vars

\* C3 amended: such a call returns source 'gpt'; the counter increases by
\* one when a client is configured and the completion request returns, and
\* is unchanged when no client is configured or the request raises.
C3_Fallback ==
    [][ ( /\ Call
          /\ Uncached
          /\ ~IsBlank(last'.text)
          /\ DictionaryResults[last'.text, last'.language] = None )
        => /\ last'.source = "gpt"
           /\ last'.gpt_calls = 1
           /\ (last'.gpt_path = "mock") = (~openai_client)
           /\ api_usage_count' =
                IF openai_client /\ Returned(last') THEN api_usage_count + 1
                ELSE api_usage_count ]_vars

C3_Witness ==
    /\ last.op = "translate_text"
    /\ last.text = "Zq"
    /\ last.source = "gpt"
    /\ last.gpt_path = "content"
    /\ api_usage_count = 1

\* C4: for a non-blank text and an uncached key, the source is 'dictionary'
\* exactly when the dictionary resolver returns a match that differs from the
\* text; then the match is returned and cached under the verbatim key and the
\* model translator is not called.  Otherwise the model translator is called
\* once and what it returns is cached under the verbatim key and returned.
C4_HybridPolicy ==
    [][ ( /\ Call
          /\ Uncached
          /\ ~IsBlank(last'.text) )
        => LET match == DictionaryResults[last'.text, last'.language]
               differs == Truthy(match) /\ match[1] # last'.text
           IN  /\ (last'.source = "dictionary") = differs
               /\ CallKey \in DOMAIN translation_cache'
               /\ translation_cache'[CallKey] = last'.result
               /\ last'.dict_calls = 1
               /\ differs => (last'.result = match[1] /\ last'.gpt_calls = 0)
               /\ ~differs => (last'.source = "gpt" /\ last'.gpt_calls = 1) ]_vars

\* the resolver's match equals the text, so the model translator is called
C4_Witness ==
    /\ last.op = "translate_text"
    /\ last.text = "Personal"
    /\ last.language = "Spanish"
    /\ DictionaryResults["Personal", "Spanish"] = Some("Personal")
    /\ last.source = "gpt"
    /\ last.gpt_calls = 1

\* C5: when the verbatim key of a call is in the cache, the call returns the
\* cached text with source 'cached', writes nothing to the cache, invokes
\* neither the dictionary resolver nor the model translator and leaves the
\* API-usage counter unchanged.
C5_CachePrecedence ==
    [][ ( /\ Call
          /\ ~Uncached )
        => /\ last'.result = translation_cache[CallKey]
           /\ last'.source = "cached"
           /\ translation_cache' = translation_cache
           /\ last'.dict_calls = 0
           /\ last'.gpt_calls = 0
           /\ api_usage_count' = api_usage_count ]_vars

C5_Witness ==
    /\ last.op = "translate_text"
    /\ last.source = "cached"
    /\ last.text = "Personal"
    /\ last.result = "Personal"
    /\ Cardinality(DOMAIN translation_cache) = 2

\* C6: a call with an empty or whitespace-only text returns the text
\* unchanged with source 'original' and leaves the cache and the API-usage
\* counter unchanged; no cache holds a key built from a blank text.
C6_BlankInput ==
    /\ [](\A text \in Texts, language \in Languages, context \in Contexts :
            IsBlank(text) => CacheKey(text, language, context) \notin DOMAIN translation_cache)
    /\ [][ ( /\ Call
             /\ IsBlank(last'.text) )
           => /\ last'.result = last'.text
              /\ last'.source = "original"
              /\ last'.dict_calls = 0
              /\ last'.gpt_calls = 0
              /\ translation_cache' = translation_cache
              /\ api_usage_count' = api_usage_count ]_vars

C6_Witness ==
    /\ last.op = "translate_text"
    /\ last.text = " \t"
    /\ last.result = " \t"
    /\ last.source = "original"
    /\ translation_cache # << >>

C8_Original ==
    [][ /\ ( /\ Call
             /\ Uncached
             /\ ~openai_client
             /\ ~IsBlank(last'.text)
             /\ DictionaryResults[last'.text, last'.language] = None )
           => /\ last'.result = "[Mock translation to " \o last'.language \o "] " \o last'.text
              /\ last'.source = "gpt"
        /\ ( /\ Call
             /\ last'.after = "same_call"
             /\ last.gpt_path = "mock" )
           => /\ last'.result = last.result
              /\ last'.source = "cached"
              /\ api_usage_count' = api_usage_count ]_vars

\* C8 amended: the placeholder is "[Mock AI Translation to <L>] <t>".
C8_MockPath ==
    [][ /\ ( /\ Call
             /\ Uncached
             /\ ~openai_client
             /\ ~IsBlank(last'.text)
             /\ DictionaryResults[last'.text, last'.language] = None )
           => /\ last'.result = "[Mock AI Translation to " \o last'.language \o "] " \o last'.text
              /\ last'.source = "gpt"
              /\ api_usage_count' = api_usage_count
        /\ ( /\ Call
             /\ last'.after = "same_call"
             /\ last.gpt_path = "mock" )
           => /\ last'.result = last.result
              /\ last'.source = "cached"
              /\ api_usage_count' = api_usage_count ]_vars

C8_Witness ==
    /\ last.op = "translate_text"
    /\ last.after = "same_call"
    /\ last.text = "Zq"
    /\ last.language = "Spanish"
    /\ last.source = "cached"
    /\ last.result = "[Mock AI Translation to Spanish] Zq"
    /\ api_usage_count = 0

\* C9: with a client configured, a model call that fails returns the
\* original text and leaves the API-usage counter unchanged; a model call
\* that succeeds increases the counter by one.
C9_FailSoft ==
    [][ ( /\ Call
          /\ last'.gpt_calls = 1
          /\ openai_client )
        => /\ (last'.gpt_path \in {"raise", "no_content"})
                => (last'.result = last'.text /\ api_usage_count' = api_usage_count)
           /\ (last'.gpt_path = "content")
                => api_usage_count' = api_usage_count + 1 ]_vars

\* C20: an uncached call for a non-blank text whose normalized key is empty,
\* in a language with tables, returns the value of the first item of the
\* task-phrase table (the buy_groceries phrase) with source 'dictionary',
\* caches it under the call's key and does not call the model translator.
C20_EmptyKey ==
    [][ ( /\ Call
          /\ Uncached
          /\ ~IsBlank(last'.text)
          /\ NormalizeText(last'.text) = ""
          /\ last'.language \in Languages )
        => /\ TasksTable(last'.language)[1][1] = "buy_groceries"
           /\ last'.result = TasksTable(last'.language)[1][2]
           /\ last'.source = "dictionary"
           /\ last'.gpt_calls = 0
           /\ CallKey \in DOMAIN translation_cache'
           /\ translation_cache'[CallKey] = last'.result ]_vars

C20_Witness ==
    /\ last.op = "translate_text"
    /\ last.text = "?"
    /\ last.language = "Spanish"
    /\ last.source = "dictionary"
    /\ last.result = "Comprar comestibles"
    /\ translation_cache[CacheKey("?", "Spanish", "title")] = "Comprar comestibles"

\* C16: a call that takes the model path and whose model call fails stores
\* the original text under the call's key; every step other than the cache
\* clear keeps the entry; and a call whose key is in the cache returns the
\* stored text with source 'cached' without calling the model translator.
\* So every later call returns the original text from the cache until the
\* cache is cleared.
C16_FailedCallCached ==
    [][ /\ ( /\ Call
             /\ last'.gpt_calls = 1
             /\ last'.gpt_path \in {"raise", "no_content"} )
           => /\ last'.result = last'.text
              /\ last'.source = "gpt"
              /\ CallKey \in DOMAIN translation_cache'
              /\ translation_cache'[CallKey] = last'.text
        /\ (last'.op # "clear_translation_cache")
           => \A k \in DOMAIN translation_cache :
                /\ k \in DOMAIN translation_cache'
                /\ translation_cache'[k] = translation_cache[k]
        /\ ( /\ Call
             /\ ~IsBlank(last'.text)
             /\ CallKey \in DOMAIN translation_cache )
           => /\ last'.result = translation_cache[CallKey]
              /\ last'.source = "cached"
              /\ last'.gpt_calls = 0
        /\ ( /\ Call
             /\ last'.after = "same_call"
             /\ last.gpt_path \in {"raise", "no_content"} )
           => /\ last'.result = last'.text
              /\ last'.source = "cached"
              /\ last'.gpt_calls = 0 ]_vars

\* the text itself is what the cache returns for it: only a failed model
\* call stores that
C16_Witness ==
    /\ last.op = "translate_text"
    /\ last.after = "same_call"
    /\ last.text = "Zq"
    /\ last.source = "cached"
    /\ last.result = "Zq"
    /\ openai_client

\* C22: the API-usage counter is a non-negative integer in every reachable
\* state; no operation decreases it; a call of translate_text increases it by
\* at most one, and only when the call missed the cache, got no usable
\* dictionary match and its model call, made with a configured client,
\* completed successfully; a call made with no client leaves it unchanged.
C22_CounterMonotonic ==
    /\ [](api_usage_count \in Nat)
    /\ [][ /\ api_usage_count' >= api_usage_count
           /\ api_usage_count' <= api_usage_count + 1
           /\ (api_usage_count' # api_usage_count)
                => /\ Call
                   /\ Uncached
                   /\ ~IsBlank(last'.text)
                   /\ LET match == DictionaryResults[last'.text, last'.language]
                      IN  ~(Truthy(match) /\ match[1] # last'.text)
                   /\ openai_client
                   /\ last'.gpt_calls = 1
                   /\ last'.gpt_path = "content"
           /\ (Call /\ ~openai_client) => api_usage_count' = api_usage_count ]_vars

\* ------------------------------------------------------------------------
\* Properties of the session
\* ------------------------------------------------------------------------
\* C10: every operation of the session other than the clear-cache action
\* (translate_text, the task form, the status change, the delete button, the
\* Translate and Retranslate buttons, clear-all-tasks, the language choice,
\* import) keeps every cache key and the value stored under it.
C10_CacheMonotonicity ==
    [][ (last'.op # "clear_translation_cache")
        => \A k \in DOMAIN translation_cache :
             /\ k \in DOMAIN translation_cache'
             /\ translation_cache'[k] = translation_cache[k] ]_vars

\* the Translate button wrote the task's title beside an entry of an
\* earlier call, which is still there
C10_Witness ==
    /\ last.op = "translate_button"
    /\ CacheKey("Zq", "Spanish", "title") \in DOMAIN translation_cache
    /\ CacheKey("buy groceries", "Spanish", "title") \in DOMAIN translation_cache
    /\ \E i \in 1..Len(tasks) : "Spanish" \in DOMAIN tasks[i].translations

\* ------------------------------------------------------------------------
\* Properties of the cache key
\* ------------------------------------------------------------------------
\* the (text, target_language, context) triples whose keys are compared
KeyUniverse == (AllTexts \X SupportedLanguages \X KeyContexts) \cup KeyCalls

\* two triples have the same cache_key exactly when they are the same triple
KeysInjective ==
    \A a \in KeyUniverse, b \in KeyUniverse :
        (CacheKey(a[1], a[2], a[3]) = CacheKey(b[1], b[2], b[3])) <=> (a = b)

\* C11: two calls address the same cache entry if and only if their text,
\* language and context are equal: the keys of distinct triples differ, a
\* call is a cache hit exactly when its own key is in the cache, and a call
\* that misses makes its own triple, and no other triple, a hit.
C11_KeyIdentity ==
    [][ ( /\ Call
          /\ ~IsBlank(last'.text) )
        => /\ KeysInjective
           /\ (last'.source = "cached") = (~Uncached)
           /\ \A b \in KeyUniverse :
                 ( /\ CacheKey(b[1], b[2], b[3]) \in DOMAIN translation_cache'
                   /\ CacheKey(b[1], b[2], b[3]) \notin DOMAIN translation_cache )
                 <=> ( /\ b = << last'.text, last'.language, last'.context >>
                       /\ Uncached ) ]_vars

\* the text with a trailing space is resolved anew while the entry of the
\* text without it is in the cache
C11_Witness ==
    /\ last.op = "translate_text"
    /\ last.text = "buy groceries "
    /\ last.language = "Spanish"
    /\ last.context = "title"
    /\ last.source = "dictionary"
    /\ CacheKey("buy groceries", "Spanish", "title") \in DOMAIN translation_cache
    /\ Cardinality(DOMAIN translation_cache) = 2

\* ------------------------------------------------------------------------
\* Properties of the dictionary resolver
\* ------------------------------------------------------------------------
\* C13: the normalized key of a text is the text lowercased, trimmed of
\* surrounding whitespace, with every run of internal whitespace replaced by
\* one underscore and the characters . , ! ? removed; the empty text has the
\* empty key.
C13_Normalization ==
    [][ (last'.op = "normalize")
        => LET RECURSIVE Collapse(_)
               \* every run of whitespace becomes one underscore
               Collapse(t) ==
                   IF t = "" THEN ""
                   ELSE IF IsSpace(Head(t))
                   THEN "_" \o Collapse(LStrip(t))
                   ELSE Head(t) \o Collapse(Tail(t))
               collapsed == Collapse(Strip(Lower(last'.text)))
               key == Replace(Replace(Replace(Replace(collapsed,
                          ".", ""), ",", ""), "!", ""), "?", "")
           IN  /\ last'.result = key
               /\ (last'.text = "") => (last'.result = "") ]_vars

\* C14: translate_text_with_dictionary returns the UI-label entry of the
\* normalized key; else the task-phrase entry of the normalized key; else the
\* value of the first item of the task-phrase table, in insertion order,
\* whose key contains the normalized key or is contained in it; else None.
C14_ResolverOrder ==
    [][ (last'.op = "translate_text_with_dictionary")
        => LET k  == NormalizeText(last'.text)
               ui == UiTable(last'.language)
               tp == TasksTable(last'.language)
               ui_hits   == { i \in 1..Len(ui) : ui[i][1] = k }
               task_hits == { i \in 1..Len(tp) : tp[i][1] = k }
               part_hits == { i \in 1..Len(tp) : IsIn(k, tp[i][1]) \/ IsIn(tp[i][1], k) }
           IN  IF ui_hits # {}
               THEN \A i \in ui_hits : last'.result = Some(ui[i][2])
               ELSE IF task_hits # {}
               THEN \A i \in task_hits : last'.result = Some(tp[i][2])
               ELSE IF part_hits # {}
               THEN \E i \in part_hits :
                      /\ \A j \in part_hits : i <= j
                      /\ last'.result = Some(tp[i][2])
               ELSE last'.result = None ]_vars

\* the letter e is in many task-phrase keys; the first of them is returned
C14_Witness ==
    /\ last.op = "translate_text_with_dictionary"
    /\ last.text = "e"
    /\ last.language = "Spanish"
    /\ last.result = Some("Comprar comestibles")
    /\ DictGet(TasksSpanish, "e") = None
    /\ IsIn("e", "exercise")

\* C15: for a language that has no phrase table, translate_text_with_dictionary
\* returns None for every text, and an uncached call of translate_text for a
\* non-blank text in that language calls the model translator once, returns
\* its result with source 'gpt' and caches it under the call's key.
C15_UnknownLanguage ==
    [][ ( /\ Call
          /\ last'.language = UnknownLanguage
          /\ ~IsBlank(last'.text)
          /\ Uncached )
        => /\ \A text \in AllTexts : DictionaryResults[text, UnknownLanguage] = None
           /\ last'.source = "gpt"
           /\ last'.dict_calls = 1
           /\ last'.gpt_calls = 1
           /\ CallKey \in DOMAIN translation_cache'
           /\ translation_cache'[CallKey] = last'.result ]_vars

\* a phrase of the tables, asked for in the language without a table
C15_Witness ==
    /\ last.op = "translate_text"
    /\ last.text = "buy groceries"
    /\ last.language = UnknownLanguage
    /\ last.source = "gpt"
    /\ last.gpt_path = "content"
    /\ translation_cache[CacheKey("buy groceries", UnknownLanguage, "title")] = "Texto traducido"

\* ------------------------------------------------------------------------
\* Properties of the task list
\* ------------------------------------------------------------------------
\* C12: import_tasks_json on a document that cannot be parsed, or that holds
\* a record without one of title, description, priority, status, created_at,
\* wherever in the document, returns False and leaves the task list as it
\* was before the call.
C12_ImportAtomicity ==
    [][ ( /\ last'.op = "import_tasks_json"
          /\ \/ last'.text = None
             \/ \E n \in 1..Len(last'.text[1]) :
                   ~(RequiredFields \subseteq DOMAIN last'.text[1][n]) )
        => /\ last'.result = "False"
           /\ tasks' = tasks ]_vars

\* C17: the card of a task whose overlay for the selected language lacks
\* 'description' (or 'title') shows the task's original description
\* (original title) for the missing field and the stored translated string
\* for the field that is there; with no overlay for the language it shows
\* both original strings.
C17_PartialOverlay ==
    [][ (last'.op = "render_task_card")
        => LET task == tasks[last'.card]
               lang == selected_language
           IN  IF lang \in DOMAIN task.translations
               THEN /\ last'.text =
                         IF "title" \in DOMAIN task.translations[lang]
                         THEN task.translations[lang]["title"] ELSE task.title
                    /\ last'.result =
                         IF "description" \in DOMAIN task.translations[lang]
                         THEN task.translations[lang]["description"]
                         ELSE task.description
               ELSE /\ last'.text = task.title
                    /\ last'.result = task.description ]_vars

\* the Spanish overlay holds a title only: the card shows the translated
\* title and the original description
C17_Witness ==
    /\ last.op = "render_task_card"
    /\ selected_language = "Spanish"
    /\ "Spanish" \in DOMAIN tasks[last.card].translations
    /\ DOMAIN tasks[last.card].translations["Spanish"] = {"title"}
    /\ last.text = "Comprar comestibles"
    /\ last.result = "Get milk"

\* C18: importing what export_tasks_json returns into an empty task list
\* succeeds and gives the exported list back, task by task and in order,
\* with every field; and a successful import gives a record without an id
\* an id no task of the list has, keeps an id that is there, and gives a
\* record without tags or translations empty ones.
C18_RoundTrip ==
    [][ /\ (last'.op = "reimport_export")
           => /\ last'.result = "True"
              /\ tasks' = tasks
        /\ (last'.op = "import_tasks_json" /\ last'.result = "True")
           => LET records == last'.text[1]
              IN  /\ Len(tasks') = Len(tasks) + Len(records)
                  /\ \A n \in 1..Len(records) :
                        LET task_data == records[n]
                            task == tasks'[Len(tasks) + n]
                        IN  /\ \A f \in DOMAIN task_data : task[f] = task_data[f]
                            /\ ("id" \notin DOMAIN task_data)
                                  => \A i \in 1..Len(tasks) : tasks[i].id # task.id
                            /\ ("tags" \notin DOMAIN task_data) => task.tags = << >>
                            /\ ("translations" \notin DOMAIN task_data)
                                  => task.translations = << >> ]_vars

\* a list of two tasks, one of them with overlays and a changed status, came
\* back from the round trip
C18_Witness ==
    /\ last.op = "reimport_export"
    /\ last.result = "True"
    /\ Len(tasks) = 2
    /\ \E i \in 1..Len(tasks) :
         /\ tasks[i].translations # << >>
         /\ tasks[i].status = "Completed"

\* C19: after any sequence of task creations, imports, status updates,
\* deletions and clear-all-tasks, no two tasks of the task list have the
\* same id.
C19_UniqueIds ==
    \A i \in 1..Len(tasks), j \in 1..Len(tasks) :
        (i # j) => (tasks[i].id # tasks[j].id)

\* ------------------------------------------------------------------------
\* Properties of the cards and of the reset buttons
\* ------------------------------------------------------------------------
\* the step is the Translate button of a card, observed in detail
Translated == last'.op = "translate_button"

\* the keys of the non-blank fields of the card the Translate button is on
TitleKey == CacheKey(tasks[last'.card].title, last'.language, "title")

DescriptionKey == CacheKey(tasks[last'.card].description, last'.language, "description")

\* every non-blank field of the card has its key in the cache before the step
FieldsCached ==
    /\ IsBlank(tasks[last'.card].title) \/ TitleKey \in DOMAIN translation_cache
    /\ IsBlank(tasks[last'.card].description)
          \/ DescriptionKey \in DOMAIN translation_cache

\* C21: the Translate button stores what it writes to the overlay in the
\* cache, under the keys of the non-blank fields; every step other than the
\* cache clear keeps these entries; and a Translate button whose non-blank
\* fields are in the cache writes the cached strings to the overlay, resolves
\* both as cache hits, calls the model translator not at all and leaves the
\* counter unchanged.  So Translate, Retranslate, Translate on a card, with no
\* cache clear, restores the overlay that Retranslate deleted.
C21_RetranslateReusesCache ==
    [][ /\ Translated
           => /\ IsBlank(tasks[last'.card].title)
                   \/ /\ TitleKey \in DOMAIN translation_cache'
                      /\ translation_cache'[TitleKey] = last'.text["title"]
              /\ IsBlank(tasks[last'.card].description)
                   \/ /\ DescriptionKey \in DOMAIN translation_cache'
                      /\ translation_cache'[DescriptionKey] = last'.text["description"]
        /\ (last'.op # "clear_translation_cache")
           => \A k \in DOMAIN translation_cache :
                /\ k \in DOMAIN translation_cache'
                /\ translation_cache'[k] = translation_cache[k]
        /\ (Translated /\ FieldsCached)
           => /\ IsBlank(tasks[last'.card].title)
                   \/ /\ last'.source[1] = "cached"
                      /\ last'.text["title"] = translation_cache[TitleKey]
              /\ IsBlank(tasks[last'.card].description)
                   \/ /\ last'.source[2] = "cached"
                      /\ last'.text["description"] = translation_cache[DescriptionKey]
              /\ last'.gpt_calls = 0
              /\ api_usage_count' = api_usage_count
        /\ (Translated /\ last'.after = "retranslated")
           => /\ last'.text = last.text
              /\ last'.source = << "cached", "cached" >>
              /\ last'.gpt_calls = 0
              /\ api_usage_count' = api_usage_count ]_vars

\* Translate, Retranslate, Translate on a card whose title went to the model
\* the first time
C21_Witness ==
    /\ last.op = "translate_button"
    /\ last.after = "retranslated"
    /\ last.source = << "cached", "cached" >>
    /\ last.text["title"] = "Texto traducido"
    /\ tasks[last.card].translations[last.language] = last.text
    /\ api_usage_count = 1

\* C23: the clear-cache button leaves the task list, with every task's
\* overlays, and the counter unchanged; the clear-all-tasks button and the
\* delete button leave the cache and the counter unchanged; so the Translate
\* button of a task created again with the same title finds the title in the
\* cache.
C23_ResetIndependence ==
    [][ /\ (last'.op = "clear_translation_cache")
           => /\ tasks' = tasks
              /\ api_usage_count' = api_usage_count
        /\ (last'.op \in {"clear_all_tasks", "delete_task"})
           => /\ translation_cache' = translation_cache
              /\ api_usage_count' = api_usage_count
        /\ ( /\ Translated
             /\ ~IsBlank(tasks[last'.card].title)
             /\ TitleKey \in DOMAIN translation_cache )
           => /\ last'.source[1] = "cached"
              /\ last'.text["title"] = translation_cache[TitleKey] ]_vars

\* the only task of the list has one overlay and its title came from the
\* cache: an earlier task with this title was translated and then removed
C23_Witness ==
    /\ last.op = "translate_button"
    /\ last.source[1] = "cached"
    /\ Len(tasks) = 1
    /\ DOMAIN tasks[1].translations = {"Spanish"}
    /\ tasks[1].translations["Spanish"]["title"] = "Comprar comestibles"
    /\ api_usage_count = 1

====
